---- MODULE Spec2Model ----
(***************************************************************************)
(* Model of auto/backup/uploader.go: the Uploader service of rqlite.  One  *)
(* goroutine runs Uploader.Start, which at every tick of a ticker asks the *)
(* enablement gate and runs Uploader.upload synchronously.  upload stages  *)
(* the provider's data in a temporary file, optionally gzips it, takes its *)
(* SHA256 sum, and hands the file to the storage client unless the sum is  *)
(* the one of the last successful upload.                                  *)
(***************************************************************************)
EXTENDS Integers, Sequences, FiniteSets, TLC

\* ---- bounds of the model ----
MaxTicks == 3   \* ticks the ticker delivers in one run
MaxLen == 2     \* longest content the provider writes, in bytes
MaxResets == 1  \* ResetStats calls in one run

\* The provider's contents differ in length, and so in digest and in the
\* number of bytes a reader counts.
Bytes == {1}
Contents == UNION {[1..n -> Bytes] : n \in 0..MaxLen}

\* ---- the two temporary paths of one cycle ----
filetoUpload == "filetoUpload"
compressedFile == "compressedFile"

VARIABLES
  pc,                 \* position of the Start goroutine
  cancelled,          \* ctx.Done() is closed
  tickPending,        \* a tick is buffered in ticker.C
  ticks,              \* ticks delivered so far
  clock,              \* time.Now(); it advances while Upload runs
  compress,           \* Uploader.compress
  disableSumCheck,    \* Uploader.disableSumCheck; NewUploader leaves it false
  lastSum,            \* Uploader.lastSum
  lastUploadTime,     \* Uploader.lastUploadTime
  lastUploadDuration, \* Uploader.lastUploadDuration
  stats,              \* the expvar map "uploader"
  files,              \* temporary paths that exist on disk
  data,               \* content of each temporary path
  sum,                \* upload's local sum
  count,              \* cr.count
  startTime,          \* upload's local startTime
  provided,           \* what Provide wrote in the running cycle, if it did
  err,                \* how the running cycle ended
  calls,              \* StorageClient.Upload invocations of the running cycle
  forced,             \* the running cycle is the first since a disabled tick
  pre,                \* the observable state when the running cycle began
  prev,               \* the cycle before the running one
  gap,                \* the gate reported disabled since the last cycle
  hist,               \* what happened over the whole run
  rpc,                \* position of a goroutine that calls Stats
  status,             \* the map that Stats call is building
  steady,             \* the content the provider has settled on, if it has
  rst,                \* position of a goroutine inside ResetStats, 0 if none
  resets              \* ResetStats calls made since Init

vars == <<pc, cancelled, tickPending, ticks, clock, compress, disableSumCheck,
          lastSum, lastUploadTime, lastUploadDuration, stats, files, data,
          sum, count, startTime, provided, err, calls, forced, pre, prev,
          gap, hist, rpc, status, steady, rst, resets>>

\* ---- SHA256Sum: a byte slice, nil when no upload has been recorded ----
NoSum == <<>>

\* The digest of a file's bytes: order-sensitive, whole-file, one value per
\* content.  The 32 bytes of the real digest are one number here.
RECURSIVE HashBytes(_)
HashBytes(s) ==
  IF s = <<>> THEN 0
  ELSE HashBytes(SubSeq(s, 1, Len(s) - 1)) * 32 + s[Len(s)] + 1

FileSHA256(content) == <<HashBytes(content)>>

\* SHA256Sum.Equals: bytes.Equal of the two slices.
Equals(a, b) == a = b

\* gzip.NewWriter + io.Copy + Close: a fixed header (no name, no mtime), the
\* body, and a trailer that carries the input's size.
GzipMagic == 31

\* A gzip header that carries the time of compression.
GzipWithModTime(content) == <<GzipMagic, clock>> \o content \o <<Len(content)>>

Gzip(content) == <<GzipMagic>> \o content \o <<Len(content)>>

\* ---- the temporary files ----
NoFiles == {}
NoData == [p \in {filetoUpload, compressedFile} |-> <<>>]

\* os.CreateTemp + Close: an empty file at a new path.
CreateTemp(fs, dt, p) == <<fs \cup {p}, [dt EXCEPT ![p] = <<>>]>>

\* A temporary file of an earlier cycle that os.Remove did not delete.  Every
\* cycle gets new names from os.CreateTemp, so such a file stays for good;
\* one name stands for all the files left, and their content is not kept.
NotRemoved == "temporary file left"

\* defer os.Remove(p), its error discarded: the outcomes.  A path that does
\* not exist stays absent; one that exists is deleted, or the call fails and
\* the file stays on disk under the name no later cycle uses.
Remove(fs, dt, p) ==
  IF p \notin fs
  THEN {<<fs, [dt EXCEPT ![p] = <<>>]>>}
  ELSE {<<fs \ {p}, [dt EXCEPT ![p] = <<>>]>>,
        <<(fs \ {p}) \cup {NotRemoved}, [dt EXCEPT ![p] = <<>>]>>}

\* defer os.Remove(compressedFile) of compressIfNeeded.
CompressCleanup(fs, dt) == Remove(fs, dt, compressedFile)

\* defer os.Remove(filetoUpload) of upload.
UploadCleanup(fs, dt) == Remove(fs, dt, filetoUpload)

\* os.Rename(compressedFile, path).
Rename(fs, dt, from, to) ==
  <<(fs \ {from}) \cup {to}, [dt EXCEPT ![to] = dt[from], ![from] = <<>>]>>

\* ---- the expvar counters ----
\* stats.Init(): the map without any key.
NoKeys == [key \in {} |-> 0]

\* The map with key holding value, the key created when it is missing.
Store(m, key, value) ==
  [k \in DOMAIN m \cup {key} |-> IF k = key THEN value ELSE m[k]]

\* expvar.Map.Add(key, delta): a missing key starts from 0.
Add(m, key, delta) ==
  Store(m, key, IF key \in DOMAIN m THEN m[key] + delta ELSE delta)

\* The keys in the order ResetStats adds them.
ResetOrder ==
  <<"num_uploads_ok", "num_uploads_fail", "num_uploads_skipped",
    "total_upload_bytes", "last_upload_bytes">>

\* The map after a ResetStats call that nothing interleaved with.
ResetStats ==
  [num_uploads_ok |-> 0, num_uploads_fail |-> 0, num_uploads_skipped |-> 0,
   total_upload_bytes |-> 0, last_upload_bytes |-> 0]

\* What a cycle can change and a reader can see.
Observable ==
  [stats |-> stats, lastSum |-> lastSum, lastUploadTime |-> lastUploadTime,
   lastUploadDuration |-> lastUploadDuration]

NoCycle == [sum |-> NoSum, err |-> "none", provided |-> <<>>]

NoHist ==
  [nCalls |-> 0, nCallsOK |-> 0, nDecided |-> 0, okBytes |-> 0, okLast |-> 0,
   okSums |-> {}, lastOK |-> NoSum, disabledSinceOK |-> FALSE, okLog |-> {},
   ctxDone |-> FALSE]

\* What a cycle found when it began: the observable state and the history.
\* Between cycles, those of a service that has done nothing yet.
NoSnapshot ==
  [obs |-> [stats |-> ResetStats, lastSum |-> NoSum, lastUploadTime |-> 0,
            lastUploadDuration |-> 0],
   hist |-> NoHist]

\* time.Time.Format(time.RFC3339), time.Duration.String() and
\* SHA256Sum.String(): the text of the value, not the value.
FormatRFC3339(t) == <<"rfc3339", t>>
DurationString(d) == <<"duration", d>>
SumString(s) == <<"hex">> \o s

\* A Stats call that has read nothing yet.
NoStatus ==
  [last_upload_time |-> "", last_upload_duration |-> "",
   last_upload_sum |-> ""]

\* ---- NewUploader, init ----
Init ==
  /\ pc = "select"
  /\ cancelled = FALSE
  /\ tickPending = FALSE
  /\ ticks = 0
  /\ clock = 0
  /\ compress \in BOOLEAN
  /\ disableSumCheck = FALSE
  /\ lastSum = NoSum
  /\ lastUploadTime = 0
  /\ lastUploadDuration = 0
  /\ stats = ResetStats
  /\ files = NoFiles
  /\ data = NoData
  /\ sum = NoSum
  /\ count = 0
  /\ startTime = 0
  /\ provided = <<>>
  /\ err = "none"
  /\ calls = 0
  /\ forced = FALSE
  /\ pre = NoSnapshot
  /\ prev = NoCycle
  /\ gap = FALSE
  /\ hist = NoHist
  /\ rpc = "idle"
  /\ status = NoStatus
  /\ steady = <<>>
  /\ rst = 0
  /\ resets = 0

config == <<compress, disableSumCheck>>
\* What no step of the service writes.
given == <<config, steady, rst, resets>>
sched == <<cancelled, tickPending, ticks>>
fields == <<lastSum, lastUploadTime, lastUploadDuration>>
disk == <<files, data>>
locals == <<sum, count, startTime, provided>>
ghosts == <<calls, forced, pre, prev, gap, hist>>
reader == <<rpc, status>>

\* ---- the environment ----
\* The ticker delivers a tick; ticker.C holds one tick and drops the rest.
Tick ==
  /\ pc \notin {"stopped", "panicked"}
  /\ ticks < MaxTicks
  /\ ticks' = ticks + 1
  /\ tickPending' = TRUE
  /\ UNCHANGED <<pc, cancelled, clock, given, reader, fields, stats, disk,
                 locals, err, ghosts>>

\* The caller cancels ctx.
Cancel ==
  /\ pc # "panicked"
  /\ ~cancelled
  /\ cancelled' = TRUE
  /\ UNCHANGED <<pc, tickPending, ticks, clock, given, reader, fields,
                 stats, disk, locals, err, ghosts>>

\* ---- Uploader.Start ----
\* A ctx.Done case that leaves the select and not the loop.
SelectDoneBreaks ==
  /\ pc = "select"
  /\ cancelled
  /\ pc' = "select"
  /\ UNCHANGED <<sched, clock, given, reader, fields, stats, disk, locals,
                 err, ghosts>>

\* case <-ctx.Done(): return
SelectDone ==
  /\ pc = "select"
  /\ cancelled
  /\ pc' = "stopped"
  /\ UNCHANGED <<sched, clock, given, reader, fields, stats, disk, locals,
                 err, ghosts>>

\* A disabled tick that leaves lastSum alone.
SelectTickDisabledKeepsSum ==
  /\ pc = "select"
  /\ tickPending
  /\ tickPending' = FALSE
  /\ gap' = TRUE
  /\ hist' = [hist EXCEPT !.disabledSinceOK = TRUE]
  /\ UNCHANGED <<pc, cancelled, ticks, clock, given, reader, fields, stats,
                 disk, locals, err, calls, forced, pre, prev>>

\* A disabled tick that is counted as a skipped upload.
SelectTickDisabledCountsSkip ==
  /\ pc = "select"
  /\ tickPending
  /\ tickPending' = FALSE
  /\ lastSum' = NoSum
  /\ stats' = Add(stats, "num_uploads_skipped", 1)
  /\ gap' = TRUE
  /\ hist' = [hist EXCEPT !.disabledSinceOK = TRUE]
  /\ UNCHANGED <<pc, cancelled, ticks, clock, given, reader, lastUploadTime,
                 lastUploadDuration, disk, locals, err, calls, forced, pre,
                 prev>>

\* case <-ticker.C with isUploadEnabled() = false: lastSum = nil; continue
SelectTickDisabled ==
  /\ pc = "select"
  /\ tickPending
  /\ tickPending' = FALSE
  /\ lastSum' = NoSum
  /\ gap' = TRUE
  /\ hist' = [hist EXCEPT !.disabledSinceOK = TRUE]
  /\ UNCHANGED <<pc, cancelled, ticks, clock, given, reader, lastUploadTime,
                 lastUploadDuration, stats, disk, locals, err, calls, forced,
                 pre, prev>>

\* A tick that starts a cycle wherever the previous one is.
SelectTickStartsConcurrently ==
  /\ pc # "stopped"
  /\ tickPending
  /\ tickPending' = FALSE
  /\ pc' = "tempFilename"
  /\ err' = "running"
  /\ calls' = 0
  /\ forced' = gap
  /\ gap' = FALSE
  /\ pre' = [obs |-> Observable, hist |-> hist]
  /\ UNCHANGED <<cancelled, ticks, clock, given, reader, fields, stats,
                 disk, locals, prev, hist>>

\* case <-ticker.C with isUploadEnabled() = true: u.upload(ctx) is entered
SelectTickEnabled ==
  /\ pc = "select"
  /\ tickPending
  /\ tickPending' = FALSE
  /\ pc' = "tempFilename"
  /\ err' = "running"
  /\ calls' = 0
  /\ forced' = gap
  /\ gap' = FALSE
  /\ pre' = [obs |-> Observable, hist |-> hist]
  /\ UNCHANGED <<cancelled, ticks, clock, given, reader, fields, stats,
                 disk, locals, prev, hist>>

\* A loop that gives up when upload returns an error.
StartReturnsOnError ==
  /\ pc = "returned"
  /\ pc' = IF err \in {"ok", "skipped"} THEN "select" ELSE "stopped"
  /\ prev' = [sum |-> sum, err |-> err, provided |-> provided]
  /\ sum' = NoSum
  /\ count' = 0
  /\ startTime' = 0
  /\ provided' = <<>>
  /\ err' = "none"
  /\ calls' = 0
  /\ forced' = FALSE
  /\ pre' = NoSnapshot
  /\ UNCHANGED <<sched, clock, given, reader, fields, stats, disk, gap,
                 hist>>

\* upload has returned: its error, if any, is logged and the loop goes on.
StartAfterUpload ==
  /\ pc = "returned"
  /\ pc' = "select"
  /\ prev' = [sum |-> sum, err |-> err, provided |-> provided]
  /\ sum' = NoSum
  /\ count' = 0
  /\ startTime' = 0
  /\ provided' = <<>>
  /\ err' = "none"
  /\ calls' = 0
  /\ forced' = FALSE
  /\ pre' = NoSnapshot
  /\ UNCHANGED <<sched, clock, given, reader, fields, stats, disk, gap,
                 hist>>

\* ---- Uploader.upload ----
\* filetoUpload, err := tempFilename(); defer os.Remove(filetoUpload)
UploadTempFilename ==
  /\ pc = "tempFilename"
  /\ \E ok \in BOOLEAN :
       IF ok
       THEN /\ files' = CreateTemp(files, data, filetoUpload)[1]
            /\ data' = CreateTemp(files, data, filetoUpload)[2]
            /\ pc' = "provide"
            /\ err' = err
       ELSE /\ pc' = "returned"
            /\ err' = "tempfile_failed"
            /\ UNCHANGED disk
  /\ UNCHANGED <<sched, clock, given, reader, fields, stats, locals,
                 ghosts>>

\* u.dataProvider.Provide(filetoUpload)
UploadProvide ==
  /\ pc = "provide"
  /\ \E ok \in BOOLEAN, content \in Contents :
       IF ok
       THEN /\ data' = [data EXCEPT ![filetoUpload] = content]
            /\ files' = files
            /\ provided' = <<content>>
            /\ pc' = IF compress THEN "compressTemp" ELSE "sum"
            /\ err' = err
       ELSE /\ \E left \in UploadCleanup(files, data) :
                 files' = left[1] /\ data' = left[2]
            /\ provided' = provided
            /\ pc' = "returned"
            /\ err' = "provide_failed"
  /\ UNCHANGED <<sched, clock, given, reader, fields, stats, sum, count,
                 startTime, ghosts>>

\* compressIfNeeded: compressedFile, err := tempFilename();
\* defer os.Remove(compressedFile)
CompressTempFilename ==
  /\ pc = "compressTemp"
  /\ \E ok \in BOOLEAN :
       IF ok
       THEN /\ files' = CreateTemp(files, data, compressedFile)[1]
            /\ data' = CreateTemp(files, data, compressedFile)[2]
            /\ pc' = "compressOpen"
            /\ err' = err
       ELSE /\ pc' = "compressFailed"
            /\ err' = err
            /\ UNCHANGED disk
  /\ UNCHANGED <<sched, clock, given, reader, fields, stats, locals,
                 ghosts>>

\* A failing step of compressFromTo or of the rename: compressIfNeeded
\* returns the error and its deferred removal runs.
CompressFail ==
  /\ \E left \in CompressCleanup(files, data) :
       files' = left[1] /\ data' = left[2]
  /\ pc' = "compressFailed"
  /\ err' = err

\* compressFromTo: os.Open(from), os.Create(to)
CompressOpen ==
  /\ pc = "compressOpen"
  /\ \E ok \in BOOLEAN :
       IF ok
       THEN /\ data' = [data EXCEPT ![compressedFile] = <<>>]
            /\ files' = files \cup {compressedFile}
            /\ pc' = "compressCopy"
            /\ err' = err
       ELSE CompressFail
  /\ UNCHANGED <<sched, clock, given, reader, fields, stats, locals,
                 ghosts>>

\* A compressor that writes its output over the source as it goes.
CompressCopyInPlace ==
  /\ pc = "compressCopy"
  /\ \E ok \in BOOLEAN :
       IF ok
       THEN /\ data' = [data EXCEPT
                          ![compressedFile] = Gzip(data[filetoUpload]),
                          ![filetoUpload] = Gzip(data[filetoUpload])]
            /\ files' = files
            /\ pc' = "compressRename"
            /\ err' = err
       ELSE CompressFail
  /\ UNCHANGED <<sched, clock, given, reader, fields, stats, locals,
                 ghosts>>

\* compressFromTo: io.Copy(gw, uncompressedFd) and gw.Close().  A failure
\* leaves a part of the stream in compressedFile.
CompressCopy ==
  /\ pc = "compressCopy"
  /\ \E ok \in BOOLEAN :
       IF ok
       THEN /\ data' = [data EXCEPT
                          ![compressedFile] = Gzip(data[filetoUpload])]
            /\ files' = files
            /\ pc' = "compressRename"
            /\ err' = err
       ELSE CompressFail
  /\ UNCHANGED <<sched, clock, given, reader, fields, stats, locals,
                 ghosts>>

\* if err := u.compressIfNeeded(filetoUpload); err != nil { return err }
UploadCompressFailed ==
  /\ pc = "compressFailed"
  /\ \E left \in UploadCleanup(files, data) :
       files' = left[1] /\ data' = left[2]
  /\ pc' = "returned"
  /\ err' = "compress_failed"
  /\ UNCHANGED <<sched, clock, given, reader, fields, stats, locals,
                 ghosts>>

\* compressIfNeeded: return os.Rename(compressedFile, path)
CompressRename ==
  /\ pc = "compressRename"
  /\ \E ok \in BOOLEAN :
       IF ok
       THEN /\ \E left \in CompressCleanup(
                 Rename(files, data, compressedFile, filetoUpload)[1],
                 Rename(files, data, compressedFile, filetoUpload)[2]) :
                 files' = left[1] /\ data' = left[2]
            /\ pc' = "sum"
            /\ err' = err
       ELSE CompressFail
  /\ UNCHANGED <<sched, clock, given, reader, fields, stats, locals,
                 ghosts>>

\* A digest failure that is counted as a failed upload.
UploadSumCountsFailure ==
  /\ pc = "sum"
  /\ \E ok \in BOOLEAN :
       IF ok
       THEN /\ sum' = FileSHA256(data[filetoUpload])
            /\ pc' = "sumCheck"
            /\ err' = err
            /\ UNCHANGED <<stats, disk>>
       ELSE /\ stats' = Add(stats, "num_uploads_fail", 1)
            /\ \E left \in UploadCleanup(files, data) :
                 files' = left[1] /\ data' = left[2]
            /\ pc' = "returned"
            /\ err' = "sum_failed"
            /\ sum' = sum
  /\ UNCHANGED <<sched, clock, given, reader, fields, count, startTime,
                 provided, ghosts>>

\* sum, err := FileSHA256(filetoUpload)
UploadSum ==
  /\ pc = "sum"
  /\ \E ok \in BOOLEAN :
       IF ok
       THEN /\ sum' = FileSHA256(data[filetoUpload])
            /\ pc' = "sumCheck"
            /\ err' = err
            /\ UNCHANGED disk
       ELSE /\ \E left \in UploadCleanup(files, data) :
                 files' = left[1] /\ data' = left[2]
            /\ pc' = "returned"
            /\ err' = "sum_failed"
            /\ sum' = sum
  /\ UNCHANGED <<sched, clock, given, reader, fields, stats, count,
                 startTime, provided, ghosts>>

\* A dedup test that never skips.
SumCheckNeverSkips(dsc, s, last) == FALSE

\* A dedup test with the comparison inverted.
SumCheckInverted(dsc, s, last) == ~dsc /\ ~Equals(s, last)

\* !u.disableSumCheck && sum.Equals(u.lastSum)
SumCheckSkips(dsc, s, last) == ~dsc /\ Equals(s, last)

\* A sum check that counts the skip and uploads all the same.
UploadSumCheckFallsThrough ==
  /\ pc = "sumCheck"
  /\ hist' = Add(hist, "nDecided", 1)
  /\ stats' = IF SumCheckSkips(disableSumCheck, sum, lastSum)
              THEN Add(stats, "num_uploads_skipped", 1)
              ELSE stats
  /\ pc' = "open"
  /\ err' = err
  /\ UNCHANGED <<sched, clock, given, reader, fields, disk, locals, calls,
                 forced, pre, prev, gap>>

\* if !u.disableSumCheck && sum.Equals(u.lastSum) { skipped++; return nil }
UploadSumCheck ==
  /\ pc = "sumCheck"
  /\ hist' = Add(hist, "nDecided", 1)
  /\ IF SumCheckSkips(disableSumCheck, sum, lastSum)
     THEN /\ stats' = Add(stats, "num_uploads_skipped", 1)
          /\ \E left \in UploadCleanup(files, data) :
               files' = left[1] /\ data' = left[2]
          /\ pc' = "returned"
          /\ err' = "skipped"
     ELSE /\ pc' = "open"
          /\ err' = err
          /\ UNCHANGED <<stats, disk>>
  /\ UNCHANGED <<sched, clock, given, reader, fields, locals, calls, forced,
                 pre, prev, gap>>

\* An upload that records the sum before it transmits.
UploadOpenRecordsSum ==
  /\ pc = "open"
  /\ lastSum' = sum
  /\ \E ok \in BOOLEAN :
       IF ok
       THEN /\ pc' = "upload"
            /\ err' = err
            /\ count' = 0
            /\ startTime' = clock
            /\ UNCHANGED disk
       ELSE /\ \E left \in UploadCleanup(files, data) :
                 files' = left[1] /\ data' = left[2]
            /\ pc' = "returned"
            /\ err' = "open_failed"
            /\ UNCHANGED <<count, startTime>>
  /\ UNCHANGED <<sched, clock, given, reader, lastUploadTime,
                 lastUploadDuration, stats, sum, provided, ghosts>>

\* fd, err := os.Open(filetoUpload); cr := &countingReader{reader: fd};
\* startTime := time.Now()
UploadOpen ==
  /\ pc = "open"
  /\ \E ok \in BOOLEAN :
       IF ok
       THEN /\ pc' = "upload"
            /\ err' = err
            /\ count' = 0
            /\ startTime' = clock
            /\ UNCHANGED disk
       ELSE /\ \E left \in UploadCleanup(files, data) :
                 files' = left[1] /\ data' = left[2]
            /\ pc' = "returned"
            /\ err' = "open_failed"
            /\ UNCHANGED <<count, startTime>>
  /\ UNCHANGED <<sched, clock, given, reader, fields, stats, sum, provided,
                 ghosts>>

\* A failed upload counted as a successful one.
AfterUploadFailCountsOK(st) == Add(st, "num_uploads_ok", 1)

\* stats.Add(numUploadsFail, 1)
AfterUploadFail(st) == Add(st, "num_uploads_fail", 1)

\* err = u.storageClient.Upload(ctx, cr): the client reads n bytes through
\* the counting reader, takes one unit of time, and succeeds or fails.
\* The context upload hands to storageClient.Upload is the ctx it was given,
\* which is the ctx Start was given: done when that one is.
UploadContext == cancelled

UploadUpload ==
  /\ pc = "upload"
  /\ \E ok \in BOOLEAN, n \in 0..Len(data[filetoUpload]) :
       /\ count' = n
       /\ clock' = clock + 1
       /\ calls' = calls + 1
       /\ IF ok
          THEN /\ pc' = "setLastSum"
               /\ err' = err
               /\ hist' = [hist EXCEPT !.nCalls = @ + 1,
                                       !.ctxDone = UploadContext,
                                       !.nCallsOK = @ + 1,
                                       !.okBytes = @ + n,
                                       !.okLast = n,
                                       !.okSums = @ \cup {sum},
                                       !.lastOK = sum,
                                       !.disabledSinceOK = FALSE,
                                       !.okLog = @ \cup
                                         {[sum |-> sum, time |-> clock + 1,
                                           duration |->
                                             clock + 1 - startTime]}]
               /\ UNCHANGED <<stats, disk>>
          ELSE /\ stats' = AfterUploadFail(stats)
               /\ \E left \in UploadCleanup(files, data) :
                    files' = left[1] /\ data' = left[2]
               /\ pc' = "returned"
               /\ err' = "upload_failed"
               /\ hist' = [hist EXCEPT !.nCalls = @ + 1,
                                       !.ctxDone = UploadContext]
  /\ UNCHANGED <<sched, given, reader, fields, sum, startTime, provided,
                 forced, pre, prev, gap>>

\* A successful upload that does not record its sum.
UploadKeepsLastSum ==
  /\ pc = "setLastSum"
  /\ pc' = "addUploadsOK"
  /\ UNCHANGED <<sched, clock, given, reader, fields, stats, disk, locals,
                 err, ghosts>>

\* u.lastSum = sum
UploadSetLastSum ==
  /\ pc = "setLastSum"
  /\ lastSum' = sum
  /\ pc' = "addUploadsOK"
  /\ UNCHANGED <<sched, clock, given, reader, lastUploadTime,
                 lastUploadDuration, stats, disk, locals, err, ghosts>>

\* stats.Add(numUploadsOK, 1)
UploadAddUploadsOK ==
  /\ pc = "addUploadsOK"
  /\ stats' = Add(stats, "num_uploads_ok", 1)
  /\ pc' = "addTotalBytes"
  /\ UNCHANGED <<sched, clock, given, reader, fields, disk, locals, err,
                 ghosts>>

\* The total overwritten by the count instead of increased by it.
UploadSetsTotalBytes ==
  /\ pc = "addTotalBytes"
  /\ stats' = Store(stats, "total_upload_bytes", count)
  /\ pc' = "setLastBytes"
  /\ UNCHANGED <<sched, clock, given, reader, fields, disk, locals, err,
                 ghosts>>

\* stats.Add(totalUploadBytes, cr.count)
UploadAddTotalBytes ==
  /\ pc = "addTotalBytes"
  /\ stats' = Add(stats, "total_upload_bytes", count)
  /\ pc' = "setLastBytes"
  /\ UNCHANGED <<sched, clock, given, reader, fields, disk, locals, err,
                 ghosts>>

\* The gauge increased by the count instead of set to it.
UploadAddsLastBytes ==
  /\ pc = "setLastBytes"
  /\ stats' = Add(stats, "last_upload_bytes", count)
  /\ pc' = "setLastUploadTime"
  /\ UNCHANGED <<sched, clock, given, reader, fields, disk, locals, err,
                 ghosts>>

\* stats.Get(lastUploadBytes).(*expvar.Int).Set(cr.count): Get returns nil
\* for a missing key and the type assertion panics; the deferred fd.Close
\* and os.Remove run, nothing recovers and the process dies.
UploadSetLastBytes ==
  /\ pc = "setLastBytes"
  /\ IF "last_upload_bytes" \in DOMAIN stats
     THEN /\ stats' = Store(stats, "last_upload_bytes", count)
          /\ pc' = "setLastUploadTime"
          /\ UNCHANGED <<disk, err>>
     ELSE /\ \E left \in UploadCleanup(files, data) :
               files' = left[1] /\ data' = left[2]
          /\ pc' = "panicked"
          /\ err' = "panic"
          /\ stats' = stats
  /\ UNCHANGED <<sched, clock, given, reader, fields, locals, ghosts>>

\* u.lastUploadTime = time.Now()
UploadSetLastUploadTime ==
  /\ pc = "setLastUploadTime"
  /\ lastUploadTime' = clock
  /\ pc' = "setLastUploadDuration"
  /\ UNCHANGED <<sched, clock, given, reader, lastSum, lastUploadDuration,
                 stats, disk, locals, err, ghosts>>

\* u.lastUploadDuration = time.Since(startTime); return err (nil)
UploadSetLastUploadDuration ==
  /\ pc = "setLastUploadDuration"
  /\ lastUploadDuration' = clock - startTime
  /\ \E left \in UploadCleanup(files, data) :
       files' = left[1] /\ data' = left[2]
  /\ pc' = "returned"
  /\ err' = "ok"
  /\ UNCHANGED <<sched, clock, given, reader, lastSum, lastUploadTime,
                 stats, locals, ghosts>>

\* ---- ResetStats, called from another goroutine ----
\* stats.Init()
ResetStatsInit ==
  /\ pc # "panicked"
  /\ rst = 0
  /\ resets < MaxResets
  /\ stats' = NoKeys
  /\ rst' = 1
  /\ resets' = resets + 1
  /\ UNCHANGED <<pc, sched, clock, config, steady, reader, fields, disk,
                 locals, err, ghosts>>

\* stats.Add(numUploadsOK, 0) ... stats.Add(lastUploadBytes, 0)
ResetStatsAdd ==
  /\ pc # "panicked"
  /\ rst \in 1..Len(ResetOrder)
  /\ stats' = Add(stats, ResetOrder[rst], 0)
  /\ rst' = IF rst = Len(ResetOrder) THEN 0 ELSE rst + 1
  /\ UNCHANGED <<pc, sched, clock, config, steady, resets, reader, fields,
                 disk, locals, err, ghosts>>

\* ---- Uploader.Stats, called from another goroutine ----
all == <<pc, sched, clock, given, fields, stats, disk, locals, err, ghosts>>

\* "last_upload_time": u.lastUploadTime.Format(time.RFC3339)
StatsLastUploadTime ==
  /\ pc # "panicked"
  /\ rpc = "idle"
  /\ status' = [NoStatus EXCEPT
                  !.last_upload_time = FormatRFC3339(lastUploadTime)]
  /\ rpc' = "duration"
  /\ UNCHANGED all

\* "last_upload_duration": u.lastUploadDuration.String()
StatsLastUploadDuration ==
  /\ rpc = "duration"
  /\ status' = [status EXCEPT
                  !.last_upload_duration = DurationString(lastUploadDuration)]
  /\ rpc' = "sum"
  /\ UNCHANGED all

\* "last_upload_sum": u.lastSum.String()
StatsLastUploadSum ==
  /\ rpc = "sum"
  /\ status' = [status EXCEPT !.last_upload_sum = SumString(lastSum)]
  /\ rpc' = "return"
  /\ UNCHANGED all

\* return status, nil
StatsReturn ==
  /\ rpc = "return"
  /\ status' = NoStatus
  /\ rpc' = "idle"
  /\ UNCHANGED all

Next ==
  \/ Tick
  \/ Cancel
  \/ SelectDone
  \/ SelectTickDisabled
  \/ SelectTickEnabled
  \/ StartAfterUpload
  \/ UploadTempFilename
  \/ UploadProvide
  \/ CompressTempFilename
  \/ CompressOpen
  \/ CompressCopy
  \/ CompressRename
  \/ UploadCompressFailed
  \/ UploadSum
  \/ UploadSumCheck
  \/ UploadOpen
  \/ UploadUpload
  \/ UploadSetLastSum
  \/ UploadAddUploadsOK
  \/ UploadAddTotalBytes
  \/ UploadSetLastBytes
  \/ UploadSetLastUploadTime
  \/ UploadSetLastUploadDuration

Spec == Init /\ [][Next]_vars

\* The steps of a cycle, from the provider's call to upload's return and
\* Start's way back to the select.
Cycle ==
  \/ StartAfterUpload
  \/ UploadTempFilename
  \/ UploadProvide
  \/ CompressTempFilename
  \/ CompressOpen
  \/ CompressCopy
  \/ CompressRename
  \/ UploadCompressFailed
  \/ UploadSum
  \/ UploadSumCheck
  \/ UploadOpen
  \/ UploadUpload
  \/ UploadSetLastSum
  \/ UploadAddUploadsOK
  \/ UploadAddTotalBytes
  \/ UploadSetLastBytes
  \/ UploadSetLastUploadTime
  \/ UploadSetLastUploadDuration

\* The service when every call a cycle makes returns, and the select, which
\* picks at random among its ready cases, does not pass over a ready
\* ctx.Done for ever.  Nothing is assumed about ticks and cancellation.
FairSpec == Spec /\ WF_vars(Cycle) /\ SF_vars(SelectDone)

\* ---- a provider that settles ----
\* From a point between two cycles on, with a tick still to come: the caller
\* does not cancel, the gate reports enabled, the provider writes the same
\* content every time, and no file operation fails.
Settle ==
  /\ steady = <<>>
  /\ pc = "select"
  /\ ~cancelled
  /\ ticks < MaxTicks
  /\ \E content \in Contents : steady' = <<content>>
  /\ UNCHANGED <<pc, sched, clock, config, rst, resets, fields, stats, disk,
                 locals, err, ghosts, reader>>

\* The storage client succeeds in the end: it may fail while another cycle
\* is still to come.
StorageMayFail == tickPending \/ ticks < MaxTicks

SteadyOutcomes ==
  IF StorageMayFail THEN {"ok", "skipped", "upload_failed"}
  ELSE {"ok", "skipped"}

SteadyTick == Tick

SteadySelect == SelectTickEnabled

SteadyCycle ==
  /\ Cycle
  /\ pc = "provide" => provided' = steady
  /\ pc' # "compressFailed"
  /\ (pc' = "returned" /\ pc # "returned") => err' \in SteadyOutcomes

Unsettled == steady = <<>> /\ Next

Settled == steady # <<>> /\ (SteadyTick \/ SteadySelect \/ SteadyCycle)

ConvNext ==
  \/ Unsettled
  \/ Settle
  \/ Settled

\* Once settled the ticker ticks, the select takes the tick and every call
\* of a cycle returns.
ConvSpec ==
  /\ Init
  /\ [][ConvNext]_vars
  /\ WF_vars(steady # <<>> /\ SteadyTick)
  /\ WF_vars(steady # <<>> /\ SteadySelect)
  /\ WF_vars(steady # <<>> /\ SteadyCycle)

\* The service together with callers of ResetStats.
ResetNext ==
  \/ Next
  \/ ResetStatsInit
  \/ ResetStatsAdd

ResetSpec == Init /\ [][ResetNext]_vars

\* The service together with a goroutine that calls Stats again and again.
\* Stats writes nothing the service reads, so the service behaves under
\* StatsSpec as it does under Spec.
StatsNext ==
  \/ Next
  \/ StatsLastUploadTime
  \/ StatsLastUploadDuration
  \/ StatsLastUploadSum
  \/ StatsReturn

StatsSpec == Init /\ [][StatsNext]_vars

\* ---- properties ----
\* upload is not running: Start waits in the select, has just got upload's
\* result, or has returned.
Quiescent == pc \in {"select", "returned", "stopped"}

\* A cycle that ended before the dedup test.
EarlyAborts ==
  {"tempfile_failed", "provide_failed", "compress_failed", "sum_failed"}

\* C1 as stated: of two consecutive cycles that staged byte-identical content
\* (both took its digest, and the digests are equal) and met no file error,
\* the second is counted as skipped and does not invoke StorageClient.Upload.
C1_IdenticalSecondSkipped ==
  (/\ pc = "returned"
   /\ sum # NoSum
   /\ prev.sum = sum
   /\ prev.err # "open_failed"
   /\ err # "open_failed")
    => (err = "skipped" /\ calls = 0)

\* C1 amended: of two consecutive cycles that staged byte-identical content,
\* where the first ended in a successful upload or a skip, the gate did not
\* report disabled between them and the dedup test is not switched off, the
\* second is counted as skipped (skip counter +1) and does not invoke
\* StorageClient.Upload.
C1_IdenticalAfterBaselineSkipped ==
  (/\ pc = "returned"
   /\ sum # NoSum
   /\ prev.sum = sum
   /\ prev.err \in {"ok", "skipped"}
   /\ ~forced
   /\ ~disableSumCheck)
    => (/\ err = "skipped"
        /\ calls = 0
        /\ stats.num_uploads_skipped = pre.obs.stats.num_uploads_skipped + 1)

C1_Witness ==
  /\ pc = "returned"
  /\ sum # NoSum
  /\ prev.sum = sum
  /\ prev.err = "ok"
  /\ ~forced
  /\ err = "skipped"

\* C2 as stated: a cycle whose staged content differs from the content of the
\* prior successful upload invokes StorageClient.Upload exactly once.
C2_DifferentContentUploadedOnce ==
  (pc = "returned" /\ sum # NoSum /\ sum # pre.hist.lastOK) => calls = 1

\* C2 amended: a cycle whose staged content differs from the content of the
\* prior successful upload and whose staged file opens for reading invokes
\* StorageClient.Upload exactly once; when the open fails it invokes it zero
\* times; no cycle invokes it more than once.
C2_DifferentContentOpenedUploadedOnce ==
  /\ calls \in {0, 1}
  /\ (pc = "returned" /\ sum # NoSum /\ sum # pre.hist.lastOK)
       => (calls = IF err = "open_failed" THEN 0 ELSE 1)

C2_Witness ==
  /\ pc = "returned"
  /\ sum # NoSum
  /\ pre.hist.lastOK # NoSum
  /\ sum # pre.hist.lastOK
  /\ calls = 1

\* No ResetStats call is under way: the map has its five keys.
NotResetting == rst = 0

\* A failed transmission has incremented only the failure counter and left
\* lastSum and the timestamps as they were.
FailedUploadCountedOnce ==
  (pc = "returned" /\ err = "upload_failed")
    => Observable = [pre.obs EXCEPT !.stats.num_uploads_fail = @ + 1]

\* The cycle after a failed transmission of the same content is not skipped
\* and, once the file is open, calls Upload again.
FailedUploadTriedAgain ==
  (/\ pc = "returned"
   /\ sum # NoSum
   /\ prev.sum = sum
   /\ prev.err = "upload_failed")
    => (err # "skipped" /\ (err # "open_failed" => calls = 1))

\* As long as no Upload call has succeeded, the fail counter is the number
\* of Upload calls, the success and skip counters are 0 and lastSum is none.
OnlyFailuresCounted ==
  hist.nCallsOK = 0
    => (/\ stats.num_uploads_fail = hist.nCalls
        /\ stats.num_uploads_ok = 0
        /\ stats.num_uploads_skipped = 0
        /\ lastSum = NoSum)

\* C3 as stated, its last part: if the storage client fails on every cycle,
\* after N cycles the fail counter is N, the success and skip counters are 0
\* and lastSum is none.  Read whenever no ResetStats call is under way.
C3_FailedUploadKeepsBaseline ==
  NotResetting => OnlyFailuresCounted

\* C3 amended: a failed transmission increments only the failure counter and
\* leaves lastSum and the timestamps as they were; the next cycle that
\* stages the same content is not skipped and, once the file is open, calls
\* Upload again; as long as no Upload call has succeeded the fail counter is
\* the number of Upload calls, the success and skip counters are 0 and
\* lastSum is none.  The counters are so as long as ResetStats has not been
\* called since the service started; the next cycle with the same content
\* calls Upload again whether or not it has.
C3_FailedUploadKeepsBaselineWithoutReset ==
  /\ FailedUploadTriedAgain
  /\ resets = 0 => (FailedUploadCountedOnce /\ OnlyFailuresCounted)

C3_Witness ==
  /\ resets = 0
  /\ pc = "returned"
  /\ sum # NoSum
  /\ prev.sum = sum
  /\ prev.err = "upload_failed"
  /\ err = "upload_failed"
  /\ hist.nCallsOK = 0
  /\ stats.num_uploads_fail = MaxTicks

\* C4 as stated: the first enabled tick after a disabled one makes exactly one
\* call to StorageClient.Upload.
C4_ReenabledTickUploadsOnce ==
  (pc = "returned" /\ forced) => calls = 1

\* C4 amended: the first enabled tick after a disabled one, when its cycle
\* stages, provides, compresses, sums and opens the file without error, makes
\* exactly one call to StorageClient.Upload, also when the content is the one
\* last uploaded successfully; when one of those steps fails it makes none.
C4_ReenabledCycleUploadsOnce ==
  (pc = "returned" /\ forced)
    => /\ err # "skipped"
       /\ calls = IF err \in EarlyAborts \cup {"open_failed"} THEN 0 ELSE 1

C4_Witness ==
  /\ pc = "returned"
  /\ forced
  /\ sum # NoSum
  /\ sum = pre.hist.lastOK
  /\ calls = 1
  /\ err = "ok"

\* C5 as stated: whenever no cycle is running, ok + fail + skipped is the
\* number of cycles that reached the digest comparison, those that then
\* failed to open the staged file included.
C5_CountersCountDecidedCycles ==
  Quiescent
    => stats.num_uploads_ok + stats.num_uploads_fail
         + stats.num_uploads_skipped = hist.nDecided

\* The two byte counters of a map, as far as it has them.
ByteCounters(m) ==
  [key \in {"total_upload_bytes", "last_upload_bytes"} \cap DOMAIN m
     |-> m[key]]

\* Whenever no cycle is running, total_upload_bytes is the sum of the byte
\* counts the counting readers measured in the successful uploads and
\* last_upload_bytes is the last of them.
BytesAreOfSuccessfulUploads ==
  Quiescent
    => (/\ stats.total_upload_bytes = hist.okBytes
        /\ stats.last_upload_bytes = hist.okLast)

\* A cycle that ends otherwise than in a successful upload changes neither.
OtherCyclesKeepBytes ==
  (pc = "returned" /\ err # "ok")
    => ByteCounters(stats) = ByteCounters(pre.obs.stats)

\* C6 as stated, its first part: after N successful uploads
\* total_upload_bytes is the sum of their byte counts and last_upload_bytes
\* the last of them.  Read whenever no ResetStats call is under way.
C6_BytesOfSuccessfulUploads ==
  NotResetting => BytesAreOfSuccessfulUploads

\* C6 amended: as long as ResetStats has not been called since the service
\* started, after N successful uploads total_upload_bytes is the sum of
\* their byte counts and last_upload_bytes the last of them, and a cycle
\* that ends otherwise than in a successful upload changes neither.
C6_BytesOfSuccessfulUploadsWithoutReset ==
  resets = 0 => (BytesAreOfSuccessfulUploads /\ OtherCyclesKeepBytes)

C6_Witness ==
  /\ resets = 0
  /\ pc = "returned"
  /\ err = "ok"
  /\ hist.nCallsOK = 2
  /\ stats.last_upload_bytes > 0
  /\ stats.total_upload_bytes > stats.last_upload_bytes
  /\ stats.num_uploads_fail > 0

\* C7 as stated: no content is transmitted successfully twice: when
\* StorageClient.Upload has just returned success, no earlier cycle with the
\* same digest ended in a successful Upload.
C7_ContentUploadedAtMostOnce ==
  pc = "setLastSum" => sum \notin pre.hist.okSums

\* C7 amended: a content is not transmitted successfully twice in a row:
\* when StorageClient.Upload has just returned success for the content of
\* the previous successful upload, the gate has reported disabled since that
\* upload (or the dedup test is switched off).  After a disabled tick, or
\* after a successful upload of other content, the same content is
\* transmitted again.
C7_ContentNotUploadedTwiceInARow ==
  (pc = "setLastSum" /\ sum = pre.hist.lastOK)
    => (pre.hist.disabledSinceOK \/ disableSumCheck)

C7_Witness ==
  /\ pc = "setLastSum"
  /\ sum = pre.hist.lastOK
  /\ pre.hist.disabledSinceOK
  /\ stats.num_uploads_ok > 0

\* C8: a cycle that fails at temp file creation, at the provider, at
\* compression or at the digest leaves every counter, lastSum, lastUploadTime
\* and lastUploadDuration as they were and never invokes StorageClient.Upload.
C8_EarlyAbortChangesNothing ==
  (pc = "returned" /\ err \in EarlyAborts)
    => (Observable = pre.obs /\ calls = 0 /\ hist = pre.hist)

C8_Witness ==
  /\ pc = "returned"
  /\ err = "sum_failed"
  /\ stats.num_uploads_ok > 0
  /\ lastSum # NoSum

\* C9 as stated: once a cycle has returned, on whatever path, no temporary
\* file of that cycle (the staged file, the compressor's output file) is on
\* disk.  The deferred os.Remove calls drop their error, so a removal that
\* fails leaves the file behind and nothing reports it.
C9_NoTempFileLeft ==
  Quiescent => files = NoFiles

\* C10: Start leaves its loop only out of the select and only when ctx is
\* cancelled; whatever upload returned, the loop goes back to the select,
\* where the next tick starts the next cycle.
C10_OnlyCancellationStops ==
  [][/\ (pc' = "stopped" /\ pc # "stopped") => (pc = "select" /\ cancelled)
     /\ (pc = "returned" /\ pc' # pc) => pc' = "select"]_vars

C10_Witness ==
  /\ pc = "tempFilename"
  /\ prev.err \in EarlyAborts \cup {"open_failed", "upload_failed"}
  /\ ~cancelled

\* C11 as stated: once ctx is cancelled, Start at its select starts no upload
\* cycle, also when a tick is pending in ticker.C.
C11_NoCycleAfterCancel ==
  [][(pc = "select" /\ cancelled) => pc' # "tempFilename"]_vars

\* C12: a cycle starts only out of the select, where no cycle is running, by
\* taking the pending tick; a tick that fires while a cycle runs stays in
\* ticker.C until that cycle has returned.
C12_OneCycleAtATime ==
  [][/\ (pc' = "tempFilename" /\ pc # "tempFilename")
          => (pc = "select" /\ tickPending /\ ~tickPending')
     /\ (tickPending /\ ~tickPending') => pc = "select"]_vars

C12_Witness ==
  /\ pc = "upload"
  /\ tickPending
  /\ ticks = 2

\* The uploads a status map can describe: the successful ones, and the one
\* that never happened (zero time, zero duration, no sum).
Uploads == hist.okLog \cup {[sum |-> NoSum, time |-> 0, duration |-> 0]}

\* C13 as stated: the map a Stats call returns describes one upload: its
\* time and duration are those of the same upload, and its sum is that
\* upload's sum (or none, when a disabled tick has cleared lastSum since).
C13_StatsNotTorn ==
  rpc = "return"
    => \E u \in Uploads :
         /\ status.last_upload_time = FormatRFC3339(u.time)
         /\ status.last_upload_duration = DurationString(u.duration)
         /\ status.last_upload_sum \in {SumString(u.sum), SumString(NoSum)}

\* A cycle that ended on an error of a file operation.
FileErrors ==
  {"tempfile_failed", "compress_failed", "sum_failed", "open_failed"}

\* C14 as stated: with compression on, of two consecutive cycles that the
\* provider gave the same content and that met no file error, the first
\* uploaded successfully, the second is skipped.
C14_SameContentCompressedSkipped ==
  (/\ pc = "returned"
   /\ compress
   /\ provided # <<>>
   /\ prev.provided = provided
   /\ prev.err = "ok"
   /\ err \notin FileErrors)
    => err = "skipped"

\* C14 amended: with compression on, of two consecutive cycles that the
\* provider gave the same content, the first uploaded successfully, the gate
\* not disabled between the two (and the dedup test not switched off), the
\* second, when its compression and digest succeed, has the digest of the
\* first (that of the compressed content) and is skipped without a call to
\* StorageClient.Upload.
C14_SameContentCompressedSkippedWhileEnabled ==
  (/\ pc = "returned"
   /\ compress
   /\ provided # <<>>
   /\ prev.provided = provided
   /\ prev.err = "ok"
   /\ ~forced
   /\ ~disableSumCheck
   /\ err \notin {"compress_failed", "sum_failed"})
    => (/\ sum = FileSHA256(<<GzipMagic>> \o provided[1]
                              \o <<Len(provided[1])>>)
        /\ sum = prev.sum
        /\ err = "skipped"
        /\ calls = 0)

C14_Witness ==
  /\ pc = "returned"
  /\ compress
  /\ provided = <<<<1>>>>
  /\ prev.provided = provided
  /\ prev.err = "ok"
  /\ ~forced
  /\ err = "skipped"

\* C15: while compressIfNeeded runs, and when it has returned an error from
\* whichever step, the staged file exists at its path with the bytes the
\* provider wrote; only the successful rename puts the compressed bytes there.
C15_SourceIntactUntilRename ==
  /\ pc \in {"compressTemp", "compressOpen", "compressCopy", "compressRename",
             "compressFailed"}
       => (/\ filetoUpload \in files
           /\ provided # <<>>
           /\ data[filetoUpload] = provided[1])
  /\ (pc = "sum" /\ compress)
       => (/\ filetoUpload \in files
           /\ compressedFile \notin files
           /\ data[filetoUpload] # provided[1]
           /\ data[filetoUpload][1] = GzipMagic)

C15_Witness ==
  /\ pc = "compressFailed"
  /\ data[filetoUpload] = <<1>>
  /\ compressedFile \notin files
  /\ hist.nCallsOK > 0

\* C16: a tick on which the gate reports disabled runs no cycle: Start stays
\* at its select, the provider and the storage client are not invoked, no
\* counter, timestamp or file changes, and lastSum is cleared to none.
C16_DisabledTickOnlyClearsSum ==
  [][(pc = "select" /\ pc' = "select" /\ tickPending /\ ~tickPending')
       => (/\ lastSum' = NoSum
           /\ stats' = stats
           /\ lastUploadTime' = lastUploadTime
           /\ lastUploadDuration' = lastUploadDuration
           /\ provided' = <<>>
           /\ hist'.nCalls = hist.nCalls
           /\ hist'.nDecided = hist.nDecided
           /\ files' = files
           /\ data' = data
           /\ cancelled' = cancelled)]_vars

C16_Witness ==
  /\ pc = "select"
  /\ gap
  /\ lastSum = NoSum
  /\ hist.lastOK # NoSum
  /\ lastUploadTime > 0
  /\ stats.num_uploads_ok = 1

\* The digest of the most recent successful upload that line 164 has
\* recorded: just after Upload has returned, still the one before.
LastRecorded == IF pc = "setLastSum" THEN pre.hist.lastOK ELSE hist.lastOK

\* C17: lastSum is none or the digest of the most recent successful upload;
\* it is none as long as no upload has succeeded and from a disabled tick
\* until the next successful upload; it is never the digest of content that
\* was not uploaded successfully.
C17_LastSumIsLastSuccess ==
  /\ lastSum \in {NoSum, LastRecorded}
  /\ lastSum # NoSum => lastSum \in hist.okSums
  /\ hist.nCallsOK = 0 => lastSum = NoSum
  /\ (hist.disabledSinceOK \/ (pc = "setLastSum" /\ pre.hist.disabledSinceOK))
       => lastSum = NoSum
  /\ (pc = "returned" /\ err \notin {"ok", "skipped"})
       => lastSum = pre.obs.lastSum

C17_Witness ==
  /\ pc = "returned"
  /\ err = "upload_failed"
  /\ lastSum # NoSum
  /\ lastSum # sum
  /\ lastSum = hist.lastOK

\* The bytes of the first k successful uploads, and of the k-th, for the k
\* the success counter shows.
BytesOfCounted ==
  IF stats.num_uploads_ok = hist.nCallsOK
  THEN [total |-> hist.okBytes, last |-> hist.okLast]
  ELSE [total |-> pre.hist.okBytes, last |-> pre.hist.okLast]

\* When num_uploads_ok is k, total_upload_bytes is the sum of the byte
\* counts of the first k successful uploads and last_upload_bytes is the
\* byte count of the k-th.
BytesMatchCounted ==
  /\ stats.total_upload_bytes = BytesOfCounted.total
  /\ stats.last_upload_bytes = BytesOfCounted.last

\* The same when upload is not between lines 165 and 167.  After line 165
\* both byte counters still have the values of before this upload; after
\* line 166 the total is up to date and last_upload_bytes is not yet.
AccurateOutsideAccounting ==
  /\ pc \notin {"addTotalBytes", "setLastBytes"} => BytesMatchCounted
  /\ pc = "addTotalBytes"
       => (/\ stats.num_uploads_ok = hist.nCallsOK
           /\ stats.total_upload_bytes = pre.hist.okBytes
           /\ stats.last_upload_bytes = pre.hist.okLast)
  /\ pc = "setLastBytes"
       => (/\ stats.num_uploads_ok = hist.nCallsOK
           /\ stats.total_upload_bytes = hist.okBytes
           /\ stats.last_upload_bytes = pre.hist.okLast)

\* C18 as stated: in every state a reader can observe, when num_uploads_ok
\* is k, total_upload_bytes is the sum of the byte counts of the first k
\* successful uploads and last_upload_bytes is the byte count of the k-th.
\* Read whenever no ResetStats call is under way.
C18_CountersAccurateAtEveryInstant ==
  NotResetting => BytesMatchCounted

\* C18 amended: as long as ResetStats has not been called since the service
\* started, the counters are accurate whenever upload is not between lines
\* 165 and 167; between them the success counter is ahead of the byte
\* counters.
C18_CountersAccurateOutsideAccounting ==
  resets = 0 => AccurateOutsideAccounting

C18_Witness ==
  /\ resets = 0
  /\ pc = "addTotalBytes"
  /\ count > 0
  /\ stats.num_uploads_ok = 2
  /\ stats.total_upload_bytes > 0

\* C19: once ctx is cancelled Start eventually returns, given that the cycle
\* in flight returns; at the select the ctx.Done case is ready whether or not
\* a tick is there; and the context every Upload call is handed is done
\* exactly when Start's is.
C19_CancelStops ==
  /\ cancelled ~> pc = "stopped"
  /\ [](pc = "select" /\ cancelled => ENABLED SelectDone)
  /\ [][hist'.nCalls # hist.nCalls => hist'.ctxDone = cancelled]_vars

C19_Witness ==
  /\ pc = "stopped"
  /\ ~tickPending
  /\ ticks < MaxTicks
  /\ hist.ctxDone
  /\ hist.nCalls = 1

\* The digest of the file upload transmits when the provider wrote content.
DigestOf(content) ==
  IF compress
  THEN <<HashBytes(<<GzipMagic>> \o content \o <<Len(content)>>)>>
  ELSE <<HashBytes(content)>>

\* The provider has settled and lastSum is the digest of what it writes.
Converged == steady # <<>> /\ lastSum = DigestOf(steady[1])

\* C20: once the provider has settled on a content (gate enabled, no
\* cancellation, no file error, the storage client succeeding in the end),
\* lastSum comes to equal the digest of that content and stays so; and
\* whenever lastSum equals it, no step invokes the storage client or changes
\* lastSum, and a cycle that returns was skipped, but for the successful
\* cycle that has just recorded it.
C20_Converges ==
  /\ (steady # <<>>) ~> []Converged
  /\ [][Converged
          => (/\ hist'.nCalls = hist.nCalls
              /\ lastSum' = lastSum
              /\ (pc' = "returned" /\ pc # "returned")
                   => (err' = "skipped" \/ pc = "setLastUploadDuration"))]_vars

C20_Witness ==
  /\ Converged
  /\ pc = "returned"
  /\ err = "skipped"
  /\ prev.err = "ok"
  /\ hist.nCalls > hist.nCallsOK
  /\ hist.nCallsOK = 1

====
